---- MODULE Spec2Model ----
(***************************************************************************)
(* Model of the Google Drive command line tools:                           *)
(*   src/src/download_drive.py         (download / process tool)           *)
(*   src/src/drive_upload_to_folder.py (upload tool)                       *)
(*   src/src/drive_create_folder.py    (folder_exists / create_folder)     *)
(*                                                                         *)
(* A file or folder name is a sequence of pieces, the stem followed by its *)
(* dot-extensions (<<"a", ".pdf">> is "a.pdf"); a path is a sequence of    *)
(* names; the empty path stands for None / ''.  Sizes and free space are   *)
(* counted in units of 512 MiB.                                            *)
(***************************************************************************)
EXTENDS Integers, Sequences, FiniteSets, TLC

\* ------------------------------------------------------------- bounds
\* the free blocks statvfs('/') reports range over 0..MaxFree
MaxFree == 5
\* at most MaxFail remote calls raise HttpError in one run
MaxFail == 1

\* ------------------------------------------------------ MIME types
FolderMime == "application/vnd.google-apps.folder"
DocMime == "application/vnd.google-apps.document"
SheetMime == "application/vnd.google-apps.spreadsheet"
SlidesMime == "application/vnd.google-apps.presentation"
PdfMime == "application/pdf"
XlsxMime == "application/vnd.openxmlformats-officedocument.spreadsheetml.sheet"
PptxMime == "application/vnd.openxmlformats-officedocument.presentationml.presentation"
DocxMime == "application/vnd.openxmlformats-officedocument.wordprocessingml.document"

\* download_file's export table
export_mime_types ==
    [m \in {DocMime, SheetMime, SlidesMime} |->
        CASE m = DocMime -> PdfMime
          [] m = SheetMime -> XlsxMime
          [] m = SlidesMime -> PptxMime]

\* ------------------------------------------------------ remote trees
\* A remote tree maps an id to the metadata files().get / files().list
\* return for it; "children" is the order in which list returns them and
\* "size" is absent where the service reports none.
NoPath == <<>>

\* F/{a.pdf (1 unit ~ 500 MB), S/{b.docx (4 units = 2 GB), Sheet}, Report}
TreeScenario ==
    [F |-> [name |-> <<"F">>, mimeType |-> FolderMime, children |-> <<"A", "S", "D">>],
     A |-> [name |-> <<"a", ".pdf">>, mimeType |-> PdfMime, size |-> 1],
     S |-> [name |-> <<"S">>, mimeType |-> FolderMime, children |-> <<"B", "H">>],
     B |-> [name |-> <<"b", ".docx">>, mimeType |-> DocxMime, size |-> 4],
     H |-> [name |-> <<"Sheet", ".v2">>, mimeType |-> SheetMime],
     D |-> [name |-> <<"Report">>, mimeType |-> DocMime]]

\* F/{S/{T/{g.pdf}, E/{}, b.docx}, a.pdf}: a subfolder listed first, a
\* folder two levels down and an empty folder
TreeDeep ==
    [F |-> [name |-> <<"F">>, mimeType |-> FolderMime, children |-> <<"S", "A">>],
     S |-> [name |-> <<"S">>, mimeType |-> FolderMime, children |-> <<"T", "E", "B">>],
     T |-> [name |-> <<"T">>, mimeType |-> FolderMime, children |-> <<"G">>],
     E |-> [name |-> <<"E">>, mimeType |-> FolderMime, children |-> <<>>],
     G |-> [name |-> <<"g", ".pdf">>, mimeType |-> PdfMime, size |-> 2],
     B |-> [name |-> <<"b", ".docx">>, mimeType |-> DocxMime, size |-> 2],
     A |-> [name |-> <<"a", ".pdf">>, mimeType |-> PdfMime, size |-> 1]]

\* a folder without children
TreeEmpty ==
    [F |-> [name |-> <<"F">>, mimeType |-> FolderMime, children |-> <<>>]]

\* the id given on the command line is a single file
TreeFile ==
    [F |-> [name |-> <<"x", ".pdf">>, mimeType |-> PdfMime, size |-> 3]]

TreeNames == {"scenario", "deep", "empty", "file"}

TreeOf(n) ==
    CASE n = "scenario" -> TreeScenario
      [] n = "deep" -> TreeDeep
      [] n = "empty" -> TreeEmpty
      [] n = "file" -> TreeFile

Trees == {TreeOf(n) : n \in TreeNames}

RootId == "F"

\* --local_folder_path when given
LocalRoot == << <<"out">> >>

\* ------------------------------------------------------ pure helpers
\* dict.get(key, default)
ItemGet(item, key, default) ==
    IF key \in DOMAIN item THEN item[key] ELSE default

\* files().list(q="'<id>' in parents and trashed = false"): the children
ListChildren(tree, folder_id) ==
    ItemGet(tree[folder_id], "children", <<>>)

\* os.path.join(path, name) for a relative name
os_path_join(path, name) == Append(path, name)

\* os.path.relpath(path, start) for a path below start
os_path_relpath(path, start) == SubSeq(path, Len(start) + 1, Len(path))

\* os.path.splitext(file_name)[1]
get_file_extension(file_name) ==
    IF Len(file_name) > 1 THEN file_name[Len(file_name)] ELSE ""

\* file_name += file_extension
NameAppend(file_name, file_extension) ==
    IF file_extension = "" THEN file_name ELSE Append(file_name, file_extension)

\* os.path.exists(path) on the local file system fs = [files, dirs]
os_path_exists(fs, path) == path \in fs.files \/ path \in fs.dirs

\* the paths os.walk(top) reports as files: every file below top
os_walk_files(fs, top) ==
    IF top \in fs.dirs
    THEN {p \in fs.files : Len(p) > Len(top) /\ SubSeq(p, 1, Len(top)) = top}
    ELSE {}

Prefixes(p) == {SubSeq(p, 1, k) : k \in 1..(Len(p) - 1)}

\* os.makedirs(path, exist_ok=True)
os_makedirs(fs, path) == [fs EXCEPT !.dirs = @ \cup {path} \cup Prefixes(path)]

RECURSIVE SumSeq(_)
SumSeq(s) == IF s = <<>> THEN 0 ELSE Head(s) + SumSeq(Tail(s))

SeqToSet(s) == {s[i] : i \in 1..Len(s)}


\* ------------------------------------------------ download_drive.py
\* fetch_files_in_folder: the sequence the generator yields.  FetchItems
\* is its loop "for item in items" from position i on.
RECURSIVE fetch_files_in_folder(_, _, _, _), FetchItems(_, _, _, _, _)

\* mutant: the walk yields what lies below a subfolder after the other
\* items of the folder
RECURSIVE FetchItems_SubfoldersLast(_, _, _, _, _)
FetchItems_SubfoldersLast(tree, items, i, recursive, current_path) ==
    IF i > Len(items) THEN <<>>
    ELSE LET item == tree[items[i]]
             item_path == os_path_join(current_path, item.name)
         IN  IF item.mimeType = FolderMime /\ recursive
             THEN FetchItems_SubfoldersLast(tree, items, i + 1, recursive, current_path)
                  \o fetch_files_in_folder(tree, items[i], recursive, item_path)
             ELSE << [id |-> items[i],
                      name |-> item.name,
                      mimeType |-> item.mimeType,
                      size |-> ItemGet(item, "size", 0),
                      path |-> item_path] >>
                  \o FetchItems_SubfoldersLast(tree, items, i + 1, recursive, current_path)

FetchItems(tree, items, i, recursive, current_path) ==
    IF i > Len(items) THEN <<>>
    ELSE LET item == tree[items[i]]
             item_path == os_path_join(current_path, item.name)
         IN  (IF item.mimeType = FolderMime /\ recursive
              THEN fetch_files_in_folder(tree, items[i], recursive, item_path)
              ELSE << [id |-> items[i],
                       name |-> item.name,
                       mimeType |-> item.mimeType,
                       size |-> ItemGet(item, "size", 0),
                       path |-> item_path] >>)
             \o FetchItems(tree, items, i + 1, recursive, current_path)

\* mutant: an id that denotes a file yields that file itself
fetch_files_in_folder_SelfFile(tree, folder_id, recursive, current_path) ==
    IF tree[folder_id].mimeType # FolderMime
    THEN << [id |-> folder_id,
             name |-> tree[folder_id].name,
             mimeType |-> tree[folder_id].mimeType,
             size |-> ItemGet(tree[folder_id], "size", 0),
             path |-> os_path_join(current_path, tree[folder_id].name)] >>
    ELSE FetchItems(tree, ListChildren(tree, folder_id), 1, recursive, current_path)

fetch_files_in_folder(tree, folder_id, recursive, current_path) ==
    FetchItems(tree, ListChildren(tree, folder_id), 1, recursive, current_path)

\* the folders whose children fetch_files_in_folder lists, in call order
RECURSIVE FetchListCalls(_, _, _)
FetchListCalls(tree, folder_id, recursive) ==
    LET items == ListChildren(tree, folder_id)
        RECURSIVE Sub(_)
        Sub(i) == IF i > Len(items) THEN <<>>
                  ELSE (IF tree[items[i]].mimeType = FolderMime /\ recursive
                        THEN FetchListCalls(tree, items[i], recursive)
                        ELSE <<>>) \o Sub(i + 1)
    IN  <<folder_id>> \o Sub(1)

\* the dictionary local_files of calculate_total_download_size, as the
\* set of its keys: the os.walk files relative to local_folder_path
LocalFilesKeys(fs, local_folder_path) ==
    {os_path_relpath(p, local_folder_path) : p \in os_walk_files(fs, local_folder_path)}

\* the loop "for remote_file in remote_files" of
\* calculate_total_download_size, from position i on
RECURSIVE TotalSizeLoop(_, _, _, _)
TotalSizeLoop(remote, i, local_keys, overwrite) ==
    IF i > Len(remote) THEN 0
    ELSE (IF remote[i].path \in local_keys /\ ~overwrite
          THEN 0
          ELSE remote[i].size)
         + TotalSizeLoop(remote, i + 1, local_keys, overwrite)

calculate_total_download_size(tree, folder_or_file_id, local_folder_path, recursive, overwrite, mime_types, file_extensions, fs) ==
    TotalSizeLoop(fetch_files_in_folder(tree, folder_or_file_id, recursive, NoPath), 1,
                  LocalFilesKeys(fs, local_folder_path), overwrite)

\* disk_space()["free"] and the comparison of check_disk_space: both sides
\* are divided by the same 1024 ** 3, so the test is on the byte counts
InsufficientSpace(total, free_blocks) == total > free_blocks

\* mutant: the gate always lets the download through
check_disk_space_NoGate(tree, folder_or_file_id, local_folder_path, recursive, mime_types, file_extensions, overwrite, fs, free_blocks) ==
    TRUE

\* check_disk_space's result
check_disk_space(tree, folder_or_file_id, local_folder_path, recursive, mime_types, file_extensions, overwrite, fs, free_blocks) ==
    IF local_folder_path = NoPath THEN TRUE
    ELSE ~InsufficientSpace(
            calculate_total_download_size(tree, folder_or_file_id, local_folder_path,
                recursive, overwrite, mime_types, file_extensions, fs),
            free_blocks)

\* mutant: the extension filter is tested before the MIME-type filter and
\* decides alone when it is set
should_process_file_ExtOnly(mime_type, file_extension, file_path, mime_types, file_extensions, return_object, overwrite, fs) ==
    IF file_extensions # {} THEN file_extension \in file_extensions
    ELSE IF mime_types # {} /\ mime_type \notin mime_types THEN FALSE
    ELSE IF ~return_object /\ ~overwrite /\ file_path # NoPath /\ os_path_exists(fs, file_path)
         THEN FALSE
    ELSE TRUE

should_process_file(mime_type, file_extension, file_path, mime_types, file_extensions, return_object, overwrite, fs) ==
    IF mime_types # {} /\ mime_type \notin mime_types THEN FALSE
    ELSE IF file_extensions # {} /\ file_extension \notin file_extensions THEN FALSE
    ELSE IF ~return_object /\ ~overwrite /\ file_path # NoPath /\ os_path_exists(fs, file_path)
         THEN FALSE
    ELSE TRUE

\* download_file: the request it builds, the name it reports, and what it
\* returns and writes when the request succeeds (ok).  The path written is
\* computed from the name as passed in, before the extension is appended.
download_file(file_id, file_name, mime_type, file_extension, folder_path, return_object, ok) ==
    LET file_path == IF folder_path # NoPath THEN os_path_join(folder_path, file_name)
                     ELSE NoPath
        native == mime_type \in DOMAIN export_mime_types
        new_name == IF native THEN NameAppend(file_name, file_extension) ELSE file_name
        request == IF native
                   THEN [op |-> "export_media", id |-> file_id,
                         target |-> export_mime_types[mime_type], ok |-> ok]
                   ELSE [op |-> "get_media", id |-> file_id, target |-> "", ok |-> ok]
    IN  [request |-> request,
         objects |-> IF ok /\ return_object
                     THEN << [file_id |-> file_id, file_name |-> new_name,
                              mime_type |-> mime_type,
                              file_extension |-> file_extension] >>
                     ELSE <<>>,
         writes |-> IF ok /\ ~return_object /\ folder_path # NoPath
                    THEN {file_path} ELSE {}]


\* mutant: the subfolder's name is not joined to the path
subfolder_path_Flat(folder_path, file_name) == folder_path

\* subfolder_path of download_files_in_folder
subfolder_path(folder_path, file_name) ==
    IF folder_path # NoPath THEN os_path_join(folder_path, file_name) ELSE NoPath

\* file_path of download_files_in_folder and process_drive_item
item_file_path(folder_path, file_name) ==
    IF folder_path # NoPath THEN os_path_join(folder_path, file_name) ELSE NoPath

\* ------------------------ drive_upload_to_folder.py, drive_create_folder.py
\* Remote ids of the upload tool are numbers.  The remote side is a set of
\* entries [id, name, parent, folder, version]; version counts the content
\* updates of a file.
NoId == 0 - 1
\* drive_folder_id of the command line
DriveFolderId == 0

\* ids the service accepts as a parent: the destination and every folder
ValidParents(remote) == {DriveFolderId} \cup {e.id : e \in {x \in remote : x.folder}}

\* files().list(q="'<parent>' in parents and name='<name>' and mimeType
\* (= or !=) folder and trashed=false"): the matching ids
ListQuery(remote, parent, name, folder) ==
    {e.id : e \in {x \in remote : x.parent = parent /\ x.name = name /\ x.folder = folder}}

\* results.get('files', [])[0]['id']
FirstId(ids) == CHOOSE i \in ids : \A j \in ids : i <= j

\* mutant: the query leaves out "'<folder_id>' in parents"
file_exists_AnyFolder(remote, file_name, folder_id) ==
    LET files == {e.id : e \in {x \in remote : x.name = file_name /\ ~x.folder}}
    IN  IF files # {} THEN FirstId(files) ELSE NoId

\* file_exists, when its list call succeeds
file_exists(remote, file_name, folder_id) ==
    LET files == ListQuery(remote, folder_id, file_name, FALSE)
    IN  IF files # {} THEN FirstId(files) ELSE NoId

\* folder_exists, when its list call succeeds
folder_exists(remote, folder_name, starting_folder_id) ==
    Cardinality(ListQuery(remote, starting_folder_id, folder_name, TRUE)) > 0

\* the id the service gives to the next file or folder it creates
NewId(remote) ==
    1 + (CHOOSE m \in {DriveFolderId} \cup {e.id : e \in remote} :
            \A e \in remote : e.id <= m)

\* files().create(body={name, [mimeType], parents: [parent]})
RemoteCreate(remote, name, parent, folder) ==
    remote \cup {[id |-> NewId(remote), name |-> name, parent |-> parent,
                  folder |-> folder, version |-> 0]}

\* files().update(fileId=id, media_body=media): the content only
RemoteUpdate(remote, id) ==
    {IF e.id = id THEN [e EXCEPT !.version = @ + 1] ELSE e : e \in remote}

\* upload_file after a successful file_exists: the request it issues, if
\* any, and the remote side after it (ok: the request succeeds)
upload_file(remote, file_name, folder_id, overwrite, ok) ==
    LET existing_file_id == file_exists(remote, file_name, folder_id)
    IN  IF existing_file_id # NoId
        THEN IF overwrite
             THEN [events |-> <<[op |-> "update", id |-> existing_file_id, ok |-> ok]>>,
                   remote |-> IF ok THEN RemoteUpdate(remote, existing_file_id) ELSE remote]
             ELSE [events |-> <<[op |-> "exists_error", name |-> file_name,
                                 parent |-> folder_id]>>,
                   remote |-> remote]
        ELSE [events |-> <<[op |-> "create", name |-> file_name, parent |-> folder_id,
                            folder |-> FALSE, ok |-> ok]>>,
              remote |-> IF ok THEN RemoteCreate(remote, file_name, folder_id, FALSE)
                         ELSE remote]

\* create_folder: fail is "none", "list" (its folder_exists raises) or
\* "create" (files().create raises); an HttpError makes it return None
create_folder(remote, folder_name, starting_folder_id, fail) ==
    LET lst == [op |-> "list_folders", parent |-> starting_folder_id,
                name |-> folder_name, ok |-> fail # "list"]
        crt == [op |-> "create", name |-> folder_name, parent |-> starting_folder_id,
                folder |-> TRUE, ok |-> fail # "create"]
    IN  IF fail = "list" \/ starting_folder_id \notin ValidParents(remote)
        THEN [id |-> NoId, remote |-> remote, events |-> <<[lst EXCEPT !.ok = FALSE]>>]
        ELSE IF folder_exists(remote, folder_name, starting_folder_id)
        THEN [id |-> NoId, remote |-> remote, events |-> <<lst>>]
        ELSE IF fail = "create"
        THEN [id |-> NoId, remote |-> remote, events |-> <<lst, crt>>]
        ELSE [id |-> NewId(remote),
              remote |-> RemoteCreate(remote, folder_name, starting_folder_id, TRUE),
              events |-> <<lst, crt>>]

\* create_drive_subfolder after a successful folder_exists; fail is "none",
\* "list2" (the second list call raises: raised |-> TRUE), or a failure of
\* create_folder
create_drive_subfolder(remote, parent_folder_id, subfolder_name, fail) ==
    IF folder_exists(remote, subfolder_name, parent_folder_id)
    THEN [id |-> IF fail = "list2" THEN NoId
                 ELSE FirstId(ListQuery(remote, parent_folder_id, subfolder_name, TRUE)),
          remote |-> remote,
          raised |-> fail = "list2",
          events |-> <<[op |-> "list_folders", parent |-> parent_folder_id,
                        name |-> subfolder_name, ok |-> fail # "list2"]>>]
    ELSE LET c == create_folder(remote, subfolder_name, parent_folder_id, fail)
         IN  [id |-> c.id, remote |-> c.remote, raised |-> FALSE, events |-> c.events]

\* local directory trees given to the upload tool: path |-> [dirs, files]
UploadRoot == << <<"up">> >>

LocalNested ==
    (UploadRoot :> [dirs |-> << <<"s">> >>, files |-> << <<"a", ".pdf">>, <<"n", ".txt">> >>])
    @@ (Append(UploadRoot, <<"s">>) :>
            [dirs |-> << <<"u">> >>, files |-> << <<"a", ".pdf">> >>])
    @@ (UploadRoot \o << <<"s">>, <<"u">> >> :>
            [dirs |-> <<>>, files |-> << <<"z", ".txt">> >>])

LocalSingle ==
    (UploadRoot :> [dirs |-> <<>>, files |-> << <<"a", ".pdf">> >>])

LocalTreeOf(n) ==
    CASE n = "nested" -> LocalNested
      [] n = "single" -> LocalSingle

\* os.path.basename
os_path_basename(path) == path[Len(path)]

\* os.path.dirname
os_path_dirname(path) == SubSeq(path, 1, Len(path) - 1)

\* os.walk(top), top-down, as the steps upload_to_folder takes: visiting
\* root, then one step per directory, then one per file, then the
\* subdirectories in order
RECURSIVE os_walk_steps(_, _), WalkSubdirs(_, _, _)
WalkSubdirs(ltree, root, i) ==
    IF i > Len(ltree[root].dirs) THEN <<>>
    ELSE os_walk_steps(ltree, os_path_join(root, ltree[root].dirs[i]))
         \o WalkSubdirs(ltree, root, i + 1)

os_walk_steps(ltree, root) ==
    <<[kind |-> "visit", root |-> root, name |-> <<>>]>>
    \o [i \in 1..Len(ltree[root].dirs) |->
            [kind |-> "directory", root |-> root, name |-> ltree[root].dirs[i]]]
    \o [i \in 1..Len(ltree[root].files) |->
            [kind |-> "file", root |-> root, name |-> ltree[root].files[i]]]
    \o WalkSubdirs(ltree, root, 1)

\* --------------------------------------------------------- inputs
\* relative path of a node of the tree, from the parent relation alone
ParentOf(tree, id) ==
    CHOOSE p \in DOMAIN tree : id \in SeqToSet(ListChildren(tree, p))

RECURSIVE RelPath(_, _)
RelPath(tree, id) ==
    IF id = RootId THEN <<>>
    ELSE Append(RelPath(tree, ParentOf(tree, id)), tree[id].name)

FileIds(tree) == {i \in DOMAIN tree : tree[i].mimeType # FolderMime}

\* local paths at which a file of the tree would be stored
LocalCandidates(tree) ==
    IF tree[RootId].mimeType = FolderMime
    THEN {LocalRoot \o RelPath(tree, i) : i \in FileIds(tree)}
    ELSE {Append(LocalRoot, tree[RootId].name)}

FsWith(fl) ==
    [files |-> fl, dirs |-> {LocalRoot} \cup UNION {Prefixes(p) : p \in fl}]

NoFs == [files |-> {}, dirs |-> {}]

\* local file systems a run may start from: the destination missing, or
\* present holding none, one or all of the files of the tree
LocalStates(tree) ==
    {NoFs} \cup {FsWith(fl) : fl \in {{}, LocalCandidates(tree)}
                                  \cup {{p} : p \in LocalCandidates(tree)}}

DownloadArgs ==
    {[tree |-> t, recursive |-> r, overwrite |-> o, return_object |-> ro,
      local_folder_path |-> l, mime_types |-> mt, file_extensions |-> fe,
      free |-> fr, fs0 |-> f] :
        t \in TreeNames, r \in BOOLEAN, o \in BOOLEAN, ro \in BOOLEAN,
        l \in {NoPath, LocalRoot}, mt \in {{}, {PdfMime}}, fe \in {{}, {".pdf"}},
        fr \in 0..MaxFree, f \in UNION {LocalStates(tt) : tt \in Trees}}

ValidDownloadArgs ==
    {a \in DownloadArgs :
        /\ a.fs0 \in (IF a.local_folder_path = NoPath THEN {NoFs} ELSE LocalStates(TreeOf(a.tree)))
        /\ (a.local_folder_path = NoPath => a.free = 0)}

\* remote sides an upload may start from (ids 1.. under DriveFolderId)
Entry(id, name, parent, folder) ==
    [id |-> id, name |-> name, parent |-> parent, folder |-> folder, version |-> 0]

RemoteOf(n) ==
    CASE n = "empty" -> {}
      [] n = "file" -> {Entry(1, <<"a", ".pdf">>, DriveFolderId, FALSE)}
      [] n = "up" -> {Entry(1, <<"up">>, DriveFolderId, TRUE),
                      Entry(2, <<"a", ".pdf">>, DriveFolderId, FALSE)}
      [] n = "rerun" -> {Entry(1, <<"up">>, DriveFolderId, TRUE),
                         Entry(2, <<"a", ".pdf">>, DriveFolderId, FALSE),
                         Entry(3, <<"n", ".txt">>, DriveFolderId, FALSE),
                         Entry(4, <<"s">>, DriveFolderId, TRUE),
                         Entry(5, <<"a", ".pdf">>, 4, FALSE),
                         Entry(6, <<"u">>, 4, TRUE),
                         Entry(7, <<"z", ".txt">>, 6, FALSE)}
      [] n = "decoy" -> {Entry(1, <<"up">>, DriveFolderId, TRUE),
                         Entry(2, <<"a", ".pdf">>, DriveFolderId, TRUE),
                         Entry(3, <<"s">>, DriveFolderId, FALSE)}

UploadArgs ==
    {[ltree |-> t, overwrite |-> o, create_folder |-> c, remote0 |-> r] :
        t \in {"nested", "single"}, o \in BOOLEAN, c \in BOOLEAN,
        r \in {"empty", "file", "up", "rerun", "decoy"}}

\* ---------------------------------------------------------- state
VARIABLES
    tool,           \* "download" or "upload": which script runs
    args,           \* the command line and the environment it runs in
    pc,             \* position of the script
    fs,             \* local file system [files, dirs]
    remote_files,   \* list(fetch_files_in_folder(...)) of the pre-check
    total_size,     \* calculate_total_download_size's result
    stack,          \* active download_files_in_folder calls, innermost first
    file_objects,   \* objects returned so far, in order
    log,            \* remote requests and local effects, in order
    nfail,          \* remote calls that raised HttpError so far
    remote,         \* upload tool: the entries of the remote side
    folder_mapping, \* upload_to_folder's folder_mapping
    todo,           \* upload_to_folder: the steps of os.walk still to take
    current_folder_id   \* upload_to_folder's current_folder_id

\* the remote tree the run works on
Tree == TreeOf(args.tree)

\* the state of the upload tool, left alone by the download tool
uvars == <<remote, folder_mapping, todo, current_folder_id>>

\* the state of the download tool, left alone by the upload tool
dvars == <<fs, remote_files, total_size, stack, file_objects>>

vars == <<tool, args, pc, fs, remote_files, total_size, stack, file_objects, log, nfail, remote, folder_mapping, todo, current_folder_id>>

EmptyMap == [p \in {} |-> NoId]

Init ==
    /\ \/ /\ tool = "download"
          /\ args \in ValidDownloadArgs
          /\ fs = args.fs0
          /\ remote = {}
       \/ /\ tool = "upload"
          /\ args \in UploadArgs
          /\ fs = NoFs
          /\ remote = RemoteOf(args.remote0)
    /\ folder_mapping = EmptyMap
    /\ todo = <<>>
    /\ current_folder_id = NoId
    /\ pc = "main"
    /\ remote_files = <<>>
    /\ total_size = 0
    /\ stack = <<>>
    /\ file_objects = <<>>
    /\ log = <<>>
    /\ nfail = 0

\* parser.error: --local_folder_path is required without --return_object
ParserError ==
    /\ tool = "download" /\ pc = "main"
    /\ ~args.return_object /\ args.local_folder_path = NoPath
    /\ pc' = "usage"
    /\ UNCHANGED <<uvars, tool, args, fs, remote_files, total_size, stack, file_objects, log, nfail>>

FetchLog(calls, n, last_ok) ==
    [k \in 1..n |-> [op |-> "fetch_list", id |-> calls[k], ok |-> (k < n \/ last_ok)]]

\* main up to the disk-space gate: check_disk_space and exit(1)
CheckDiskSpace ==
    /\ tool = "download" /\ pc = "main"
    /\ args.return_object \/ args.local_folder_path # NoPath
    /\ LET calls == FetchListCalls(Tree, RootId, args.recursive) IN
       \/ /\ args.local_folder_path = NoPath
          /\ pc' = "process"
          /\ UNCHANGED <<remote_files, total_size, log, nfail>>
       \/ /\ args.local_folder_path # NoPath
          /\ nfail < MaxFail
          /\ \E k \in 1..Len(calls) : log' = log \o FetchLog(calls, k, FALSE)
          /\ nfail' = nfail + 1
          /\ pc' = "uncaught"
          /\ UNCHANGED <<remote_files, total_size>>
       \/ /\ args.local_folder_path # NoPath
          /\ remote_files' = fetch_files_in_folder(Tree, RootId, args.recursive, NoPath)
          /\ total_size' = calculate_total_download_size(Tree, RootId,
                 args.local_folder_path, args.recursive, args.overwrite,
                 args.mime_types, args.file_extensions, fs)
          /\ log' = log \o FetchLog(calls, Len(calls), TRUE)
          /\ pc' = IF check_disk_space(Tree, RootId, args.local_folder_path,
                        args.recursive, args.mime_types, args.file_extensions,
                        args.overwrite, fs, args.free)
                   THEN "process" ELSE "exit1"
          /\ UNCHANGED nfail
    /\ UNCHANGED <<uvars, tool, args, fs, stack, file_objects>>


\* download_files_in_folder up to its loop: the list call, the early
\* return on an empty listing or an HttpError, os.makedirs, and the new
\* frame holding the items still to visit
EnterFolder(folder_id, folder_path, ok, stk, f, lg) ==
    LET items == ListChildren(Tree, folder_id)
        ev == [op |-> "list", id |-> folder_id, ok |-> ok]
        mk == ~args.return_object /\ folder_path # NoPath
    IN  IF ~ok \/ items = <<>>
        THEN [stack |-> stk, fs |-> f, log |-> Append(lg, ev)]
        ELSE [stack |-> <<[folder_path |-> folder_path, items |-> items]>> \o stk,
              fs |-> IF mk THEN os_makedirs(f, folder_path) ELSE f,
              log |-> IF mk
                      THEN lg \o <<ev, [op |-> "makedirs", path |-> folder_path]>>
                      ELSE Append(lg, ev)]

\* the decision taken for one non-folder item
ShouldProcess(id, folder_path) ==
    LET item == Tree[id] IN
    should_process_file(item.mimeType, get_file_extension(item.name),
        item_file_path(folder_path, item.name), args.mime_types, args.file_extensions,
        args.return_object, args.overwrite, fs)

ShouldEvent(id, folder_path) ==
    [op |-> "should_process_file", id |-> id,
     file_path |-> item_file_path(folder_path, Tree[id].name),
     result |-> ShouldProcess(id, folder_path)]

\* download_file called for item id: open(file_path, 'wb') needs the
\* directory to exist and raises FileNotFoundError otherwise
Download(id, folder_path, ok, lg) ==
    LET item == Tree[id]
        r == download_file(id, item.name, item.mimeType, get_file_extension(item.name),
                           folder_path, args.return_object, ok)
        missing == r.writes # {} /\ folder_path \notin fs.dirs
    IN  [log |-> lg \o <<ShouldEvent(id, folder_path), r.request>>
                     \o (IF r.writes # {} /\ ~missing
                         THEN <<[op |-> "write", id |-> id,
                                 path |-> item_file_path(folder_path, item.name)]>>
                         ELSE <<>>),
         file_objects |-> file_objects \o r.objects,
         fs |-> IF missing THEN fs ELSE [fs EXCEPT !.files = @ \cup r.writes],
         crashed |-> missing]

\* process_drive_item: the metadata request, then the folder or the file
ProcessDriveItem ==
    /\ tool = "download" /\ pc = "process"
    /\ LET item == Tree[RootId]
           got == Append(log, [op |-> "get", id |-> RootId, ok |-> TRUE])
       IN
       \/ /\ nfail < MaxFail
          /\ log' = Append(log, [op |-> "get", id |-> RootId, ok |-> FALSE])
          /\ nfail' = nfail + 1
          /\ pc' = "done"
          /\ UNCHANGED <<fs, stack, file_objects>>
       \/ /\ item.mimeType = FolderMime
          /\ \E ok \in BOOLEAN :
                /\ ok \/ nfail < MaxFail
                /\ LET e == EnterFolder(RootId, args.local_folder_path, ok, stack, fs, got)
                   IN  /\ stack' = e.stack /\ fs' = e.fs /\ log' = e.log
                       /\ pc' = IF e.stack = <<>> THEN "done" ELSE "loop"
                /\ nfail' = IF ok THEN nfail ELSE nfail + 1
          /\ UNCHANGED file_objects
       \/ /\ item.mimeType # FolderMime
          /\ ~ShouldProcess(RootId, args.local_folder_path)
          /\ log' = got \o <<ShouldEvent(RootId, args.local_folder_path)>>
          /\ pc' = "done"
          /\ UNCHANGED <<fs, stack, file_objects, nfail>>
       \/ /\ item.mimeType # FolderMime
          /\ ShouldProcess(RootId, args.local_folder_path)
          /\ \E ok \in BOOLEAN :
                /\ ok \/ nfail < MaxFail
                /\ LET d == Download(RootId, args.local_folder_path, ok, got)
                   IN  /\ log' = d.log
                       /\ file_objects' = d.file_objects
                       /\ fs' = d.fs
                       /\ pc' = IF d.crashed THEN "uncaught" ELSE "done"
                /\ nfail' = IF ok THEN nfail ELSE nfail + 1
          /\ UNCHANGED stack
    /\ UNCHANGED <<uvars, tool, args, remote_files, total_size>>

\* the loop of download_files_in_folder reaches a folder item
VisitSubfolder ==
    /\ tool = "download" /\ pc = "loop"
    /\ Head(stack).items # <<>>
    /\ LET top == Head(stack)
           id == Head(top.items)
           rest == <<[top EXCEPT !.items = Tail(@)]>> \o Tail(stack)
       IN  /\ Tree[id].mimeType = FolderMime
           /\ \/ /\ ~args.recursive
                 /\ stack' = rest
                 /\ UNCHANGED <<fs, log, nfail>>
              \/ /\ args.recursive
                 /\ \E ok \in BOOLEAN :
                       /\ ok \/ nfail < MaxFail
                       /\ LET e == EnterFolder(id,
                                      subfolder_path(top.folder_path, Tree[id].name),
                                      ok, rest, fs, log)
                          IN  stack' = e.stack /\ fs' = e.fs /\ log' = e.log
                       /\ nfail' = IF ok THEN nfail ELSE nfail + 1
    /\ UNCHANGED <<uvars, tool, args, pc, remote_files, total_size, file_objects>>

\* the loop of download_files_in_folder reaches a non-folder item
VisitFile ==
    /\ tool = "download" /\ pc = "loop"
    /\ Head(stack).items # <<>>
    /\ LET top == Head(stack)
           id == Head(top.items)
           rest == <<[top EXCEPT !.items = Tail(@)]>> \o Tail(stack)
       IN  /\ Tree[id].mimeType # FolderMime
           /\ stack' = rest
           /\ \/ /\ ~ShouldProcess(id, top.folder_path)
                 /\ log' = Append(log, ShouldEvent(id, top.folder_path))
                 /\ UNCHANGED <<fs, file_objects, nfail, pc>>
              \/ /\ ShouldProcess(id, top.folder_path)
                 /\ \E ok \in BOOLEAN :
                       /\ ok \/ nfail < MaxFail
                       /\ LET d == Download(id, top.folder_path, ok, log)
                          IN  /\ log' = d.log
                              /\ file_objects' = d.file_objects
                              /\ fs' = d.fs
                              /\ pc' = IF d.crashed THEN "uncaught" ELSE "loop"
                       /\ nfail' = IF ok THEN nfail ELSE nfail + 1
    /\ UNCHANGED <<uvars, tool, args, remote_files, total_size>>

\* the loop of a download_files_in_folder call ends: return file_objects
ReturnFromFolder ==
    /\ tool = "download" /\ pc = "loop"
    /\ Head(stack).items = <<>>
    /\ stack' = Tail(stack)
    /\ pc' = IF Tail(stack) = <<>> THEN "done" ELSE "loop"
    /\ UNCHANGED <<uvars, tool, args, fs, remote_files, total_size, file_objects, log, nfail>>

\* ----------------------------------------------------- upload tool
\* the local tree the upload works on
LTree == LocalTreeOf(args.ltree)

ListFolders(parent, name, ok) ==
    [op |-> "list_folders", parent |-> parent, name |-> name, ok |-> ok]

\* mutant: the walk starts from the destination given on the command
\* line, whatever folder main chose
StartUpload_DriveFolder(parent_folder_id) ==
    /\ folder_mapping' = (UploadRoot :> DriveFolderId)
    /\ todo' = os_walk_steps(LTree, UploadRoot)
    /\ pc' = "walk"

\* upload_to_folder up to its loop
StartUpload(parent_folder_id) ==
    /\ folder_mapping' = (UploadRoot :> parent_folder_id)
    /\ todo' = os_walk_steps(LTree, UploadRoot)
    /\ pc' = "walk"

\* main for a directory argument: the --create_folder checks, then
\* upload_to_folder; an HttpError that escapes is caught and printed
UploadMain ==
    /\ tool = "upload" /\ pc = "main"
    /\ LET folder_name == os_path_basename(UploadRoot)
           exists == folder_exists(remote, folder_name, DriveFolderId)
           listed == Append(log, ListFolders(DriveFolderId, folder_name, TRUE))
       IN
       \/ /\ nfail < MaxFail
          /\ log' = Append(log, ListFolders(DriveFolderId, folder_name, FALSE))
          /\ nfail' = nfail + 1
          /\ pc' = "caught"
          /\ UNCHANGED <<remote, folder_mapping, todo>>
       \/ /\ args.create_folder /\ exists
          /\ log' = listed
          /\ pc' = "done"
          /\ UNCHANGED <<remote, folder_mapping, todo, nfail>>
       \/ /\ args.create_folder /\ ~exists
          /\ \E fail \in {"none", "list", "create"} :
                /\ fail = "none" \/ nfail < MaxFail
                /\ LET c == create_folder(remote, folder_name, DriveFolderId, fail)
                   IN  /\ log' = listed \o c.events
                       /\ remote' = c.remote
                       /\ IF c.id = NoId
                          THEN pc' = "done" /\ UNCHANGED <<folder_mapping, todo>>
                          ELSE StartUpload(c.id)
                /\ nfail' = IF fail = "none" THEN nfail ELSE nfail + 1
       \/ /\ ~args.create_folder /\ ~exists
          /\ log' = listed
          /\ pc' = "done"
          /\ UNCHANGED <<remote, folder_mapping, todo, nfail>>
       \/ /\ ~args.create_folder /\ exists
          /\ log' = listed
          /\ StartUpload(DriveFolderId)
          /\ UNCHANGED <<remote, nfail>>
    /\ UNCHANGED <<dvars, tool, args, current_folder_id>>

\* os.walk yields the next directory: current_folder_id = folder_mapping[root]
\* (a missing key is a KeyError, caught by main's "except Exception")
WalkVisit ==
    /\ tool = "upload" /\ pc = "walk"
    /\ todo # <<>> /\ Head(todo).kind = "visit"
    /\ IF Head(todo).root \in DOMAIN folder_mapping
       THEN /\ current_folder_id' = folder_mapping[Head(todo).root]
            /\ todo' = Tail(todo)
            /\ pc' = "walk"
       ELSE /\ pc' = "caught"
            /\ UNCHANGED <<current_folder_id, todo>>
    /\ UNCHANGED <<dvars, tool, args, log, nfail, remote, folder_mapping>>

\* "for directory in dirs": create_drive_subfolder and the mapping entry.
\* The service rejects a list request whose parent is not an id it knows.
CreateSubfolderStep ==
    /\ tool = "upload" /\ pc = "walk"
    /\ todo # <<>> /\ Head(todo).kind = "directory"
    /\ LET directory == Head(todo).name
           dir_path == os_path_join(Head(todo).root, directory)
           valid == current_folder_id \in ValidParents(remote)
       IN
       \/ /\ ~valid \/ nfail < MaxFail
          /\ log' = Append(log, ListFolders(current_folder_id, directory, FALSE))
          /\ nfail' = IF valid THEN nfail + 1 ELSE nfail
          /\ pc' = "caught"
          /\ UNCHANGED <<remote, folder_mapping, todo>>
       \/ /\ valid
          /\ \E fail \in {"none", "list", "create", "list2"} :
                /\ fail = "none" \/ nfail < MaxFail
                /\ IF folder_exists(remote, directory, current_folder_id)
                   THEN fail \in {"none", "list2"}
                   ELSE fail \in {"none", "list", "create"}
                /\ LET r == create_drive_subfolder(remote, current_folder_id, directory, fail)
                   IN  /\ log' = Append(log, ListFolders(current_folder_id, directory, TRUE))
                                 \o r.events
                       /\ remote' = r.remote
                       /\ IF r.raised
                          THEN pc' = "caught" /\ UNCHANGED <<folder_mapping, todo>>
                          ELSE /\ folder_mapping' =
                                    [p \in DOMAIN folder_mapping \cup {dir_path} |->
                                        IF p = dir_path THEN r.id ELSE folder_mapping[p]]
                               /\ todo' = Tail(todo)
                               /\ pc' = "walk"
                /\ nfail' = IF fail = "none" THEN nfail ELSE nfail + 1
    /\ UNCHANGED <<dvars, tool, args, current_folder_id>>

\* "for file in files": upload_file(service, file_path, current_folder_id, overwrite)
UploadFileStep ==
    /\ tool = "upload" /\ pc = "walk"
    /\ todo # <<>> /\ Head(todo).kind = "file"
    /\ LET file == Head(todo).name
           file_path == os_path_join(Head(todo).root, file)
           valid == current_folder_id \in ValidParents(remote)
           call == [op |-> "upload_file", file_path |-> file_path,
                    folder_id |-> current_folder_id]
           lookup(ok) == [op |-> "list_files", parent |-> current_folder_id,
                          name |-> file, ok |-> ok]
       IN
       \/ /\ ~valid \/ nfail < MaxFail
          /\ log' = log \o <<call, lookup(FALSE)>>
          /\ nfail' = IF valid THEN nfail + 1 ELSE nfail
          /\ pc' = "caught"
          /\ UNCHANGED <<remote, todo>>
       \/ /\ valid
          /\ \E ok \in BOOLEAN :
                LET r == upload_file(remote, file, current_folder_id, args.overwrite, ok)
                    request == r.events[1].op # "exists_error"
                IN  /\ ok \/ (request /\ nfail < MaxFail)
                    /\ log' = log \o <<call, lookup(TRUE)>> \o r.events
                    /\ remote' = r.remote
                    /\ nfail' = IF ok THEN nfail ELSE nfail + 1
          /\ todo' = Tail(todo)
          /\ pc' = "walk"
    /\ UNCHANGED <<dvars, tool, args, folder_mapping, current_folder_id>>

\* os.walk is exhausted: upload_to_folder and main return
WalkDone ==
    /\ tool = "upload" /\ pc = "walk"
    /\ todo = <<>>
    /\ pc' = "done"
    /\ UNCHANGED <<dvars, uvars, tool, args, log, nfail>>

Next ==
    \/ ParserError
    \/ CheckDiskSpace
    \/ ProcessDriveItem
    \/ VisitSubfolder
    \/ VisitFile
    \/ ReturnFromFolder
    \/ UploadMain
    \/ WalkVisit
    \/ CreateSubfolderStep
    \/ UploadFileStep
    \/ WalkDone

Spec == Init /\ [][Next]_vars


\* ------------------------------------------------- shared by the claims
LogIdx == 1..Len(log)

\* the pre-check ran to its end: every list call of the walk succeeded
PlanDone ==
    /\ tool = "download" /\ pc # "main"
    /\ args.local_folder_path # NoPath
    /\ \A i \in LogIdx : log[i].op = "fetch_list" => log[i].ok

\* requests that transfer content
IsTransfer(e) == e.op \in {"get_media", "export_media"}

\* f is a proper ancestor of id in the tree (by the parent relation)
RECURSIVE Under(_, _, _)
Under(tree, id, f) ==
    IF id = RootId THEN FALSE
    ELSE ParentOf(tree, id) = f \/ Under(tree, ParentOf(tree, id), f)

\* ---------------------------------------------------------------- C1
\* C1: when a local folder is given and the pre-check total exceeds the
\* free space, the tool stops at exit(1) before process_drive_item: no
\* metadata or download request is issued, nothing is returned, and no
\* local file or directory is created or written.
C1_DiskSpaceGate ==
    (tool = "download" /\ args.local_folder_path # NoPath /\ total_size > args.free)
        => /\ pc = "exit1"
           /\ \A i \in LogIdx : log[i].op = "fetch_list"
           /\ fs = args.fs0
           /\ file_objects = <<>>
           /\ stack = <<>>

\* the scenario of the specification: A (1 unit), S/B (4 units), 2 units
\* (1 GB) free, recursive, nothing stored locally
C1_Witness ==
    /\ tool = "download" /\ pc = "exit1"
    /\ args.tree = "scenario" /\ args.recursive /\ args.free = 2
    /\ args.fs0 = NoFs /\ total_size = 5

\* ---------------------------------------------------------------- C2
C2_Rules(id, file_path) ==
    LET item == Tree[id] IN
    IF args.mime_types # {} /\ item.mimeType \notin args.mime_types THEN FALSE
    ELSE IF args.file_extensions # {}
            /\ get_file_extension(item.name) \notin args.file_extensions THEN FALSE
    ELSE IF ~args.return_object /\ ~args.overwrite /\ file_path \in args.fs0.files
         THEN FALSE
    ELSE TRUE

\* C2: every decision should_process_file takes follows the ordered rules:
\* excluded by a non-empty mime_types not holding the item's MIME type,
\* else by a non-empty file_extensions not holding its extension, else by
\* an existing local file when neither return_object nor overwrite is set,
\* else included.
C2_ShouldProcessRules ==
    tool = "download" =>
        \A i \in LogIdx :
            log[i].op = "should_process_file"
                => log[i].result = C2_Rules(log[i].id, log[i].file_path)

\* file_extensions = ['.pdf'] keeps a.pdf and drops b.docx
C2_Witness ==
    /\ tool = "download"
    /\ args.file_extensions = {".pdf"} /\ args.mime_types = {}
    /\ \E i, j \in LogIdx :
          /\ log[i].op = "should_process_file" /\ log[i].id = "A" /\ log[i].result
          /\ log[j].op = "should_process_file" /\ log[j].id = "B" /\ ~log[j].result

\* ---------------------------------------------------------------- C3
C3_Counted(rf) ==
    /\ ~(args.mime_types # {} /\ rf.mimeType \notin args.mime_types)
    /\ ~(args.file_extensions # {}
         /\ get_file_extension(rf.name) \notin args.file_extensions)
    /\ ~(rf.path \in LocalFilesKeys(args.fs0, args.local_folder_path) /\ ~args.overwrite)

\* C3 (as claimed): the pre-check total is the sum of the sizes of the
\* remote items that pass the MIME-type and extension filters and are not
\* both present locally and protected by overwrite = false.
C3_FilteredTotal ==
    PlanDone =>
        total_size = SumSeq([i \in 1..Len(remote_files) |->
                                IF C3_Counted(remote_files[i])
                                THEN remote_files[i].size ELSE 0])


\* ---------------------------------------------------------------- C4
C4_ItemCall(e) ==
    \/ e.op \in {"list_files", "update", "get_media", "export_media"}
    \/ e.op = "create" /\ ~e.folder

C4_OnlyItemFailures ==
    \A i \in LogIdx : ("ok" \in DOMAIN log[i] /\ ~log[i].ok) => C4_ItemCall(log[i])

C4_LocalFiles ==
    UNION {{os_path_join(d, LTree[d].files[k]) : k \in 1..Len(LTree[d].files)} :
              d \in DOMAIN LTree}

\* C4 (as claimed): when the only remote calls that fail are calls made
\* while one item is transferred (upload_file's existence lookup, update
\* and create; download_file's media and export requests), the batch goes
\* on: at the end every file of the local tree has been handed to
\* upload_file, and every non-folder item of every folder the download
\* listed has been considered.
C4_ContinueOnError ==
    /\ (tool = "upload" /\ pc \in {"done", "caught"} /\ folder_mapping # EmptyMap
        /\ C4_OnlyItemFailures)
          => \A f \in C4_LocalFiles :
                \E i \in LogIdx : log[i].op = "upload_file" /\ log[i].file_path = f
    /\ (tool = "download" /\ pc = "done" /\ C4_OnlyItemFailures)
          => \A i \in LogIdx :
                (log[i].op = "list" /\ log[i].ok)
                    => \A c \in SeqToSet(ListChildren(Tree, log[i].id)) :
                          Tree[c].mimeType # FolderMime
                              => \E j \in LogIdx : /\ log[j].op = "should_process_file"
                                                   /\ log[j].id = c

\* ---------------------------------------------------------------- C5
C5_Leaves == FileIds(Tree) \ {RootId}

C5_Pos(id) == CHOOSE i \in 1..Len(remote_files) : remote_files[i].id = id

\* position of the child of parent p through which id is reached
C5_Branch(p, id) ==
    CHOOSE k \in 1..Len(ListChildren(Tree, p)) :
        LET c == ListChildren(Tree, p)[k] IN c = id \/ Under(Tree, id, c)

\* C5: with recursive = true the walk of a folder yields one descriptor
\* for each non-folder node below it and none for a folder, each once, and
\* the descriptors from below a subfolder stand together, after those of
\* the siblings listed before the subfolder and before those of the
\* siblings listed after it.
C5_RecursiveWalk ==
    (PlanDone /\ args.recursive /\ Tree[RootId].mimeType = FolderMime)
        => /\ Len(remote_files) = Cardinality(C5_Leaves)
           /\ {remote_files[i].id : i \in 1..Len(remote_files)} = C5_Leaves
           /\ \A i \in 1..Len(remote_files) : remote_files[i].mimeType # FolderMime
           /\ \A x, y \in C5_Leaves :
                \A p \in DOMAIN Tree :
                    (Tree[p].mimeType = FolderMime
                     /\ (p = RootId \/ Under(Tree, x, p)) /\ (p = RootId \/ Under(Tree, y, p))
                     /\ C5_Branch(p, x) < C5_Branch(p, y))
                        => C5_Pos(x) < C5_Pos(y)

\* the walk went through a subfolder with items and a later sibling
C5_Witness ==
    /\ PlanDone /\ args.recursive /\ args.tree = "scenario"
    /\ Len(remote_files) = 4
    /\ remote_files[2].id = "B" /\ remote_files[4].id = "D"

\* ---------------------------------------------------------------- C6
\* C6 (as claimed): no descriptor the walk yields has the folder type,
\* whether recursive is set or not, and no folder-type item is ever
\* considered for download or requested.
C6_NoFolderAsLeaf ==
    /\ PlanDone => \A i \in 1..Len(remote_files) : remote_files[i].mimeType # FolderMime
    /\ tool = "download" =>
          \A i \in LogIdx :
              (IsTransfer(log[i]) \/ log[i].op \in {"should_process_file", "write"})
                  => Tree[log[i].id].mimeType # FolderMime

\* ---------------------------------------------------------------- C7
C7_ExportExtension(mime_type) ==
    CASE mime_type = DocMime -> ".pdf"
      [] mime_type = SheetMime -> ".xlsx"
      [] mime_type = SlidesMime -> ".pptx"

C7_OutputName(id) ==
    IF Tree[id].mimeType \in {DocMime, SheetMime, SlidesMime}
    THEN Append(Tree[id].name, C7_ExportExtension(Tree[id].mimeType))
    ELSE Tree[id].name

\* C7 (as claimed): a native document, spreadsheet or presentation is
\* requested by export to its fixed format and the file written and the
\* object returned carry the remote name with the extension of that format
\* appended; any other item is requested as raw media under its own name.
C7_ExportNaming ==
    tool = "download" =>
        /\ \A i \in LogIdx :
              /\ IsTransfer(log[i]) =>
                    IF Tree[log[i].id].mimeType \in {DocMime, SheetMime, SlidesMime}
                    THEN /\ log[i].op = "export_media"
                         /\ log[i].target = export_mime_types[Tree[log[i].id].mimeType]
                    ELSE log[i].op = "get_media"
              /\ log[i].op = "write" =>
                    os_path_basename(log[i].path) = C7_OutputName(log[i].id)
        /\ \A k \in 1..Len(file_objects) :
              file_objects[k].file_name = C7_OutputName(file_objects[k].file_id)


\* ---------------------------------------------------------------- C8
C8_Visited ==
    {d \in DOMAIN LTree :
        \A k \in 1..Len(todo) : ~(todo[k].kind = "visit" /\ todo[k].root = d)}

C8_Folders(parent, name) ==
    {e \in remote : e.folder /\ e.parent = parent /\ e.name = name}

\* C8 (as claimed): every local directory os.walk has visited has an entry
\* in folder_mapping, which for a subdirectory is the id of a remote folder
\* of the directory's name under the folder its parent directory maps to;
\* no folder is created beside a same-named one; and every file is
\* uploaded with the id its own directory maps to.
C8_FolderMapping ==
    (tool = "upload" /\ folder_mapping # EmptyMap)
        => /\ \A d \in C8_Visited :
                /\ d \in DOMAIN folder_mapping
                /\ d # UploadRoot =>
                      \E e \in C8_Folders(folder_mapping[os_path_dirname(d)],
                                          os_path_basename(d)) :
                          e.id = folder_mapping[d]
           /\ \A e \in remote : e.folder => Cardinality(C8_Folders(e.parent, e.name)) = 1
           /\ \A i \in LogIdx :
                log[i].op = "upload_file"
                    => log[i].folder_id = folder_mapping[os_path_dirname(log[i].file_path)]

\* ---------------------------------------------------------------- C9
C9_Name(i) == os_path_basename(log[i].file_path)

C9_Files(parent, name) ==
    {e \in remote : ~e.folder /\ e.parent = parent /\ e.name = name}

\* a same-named file was in the target folder when call i was made
C9_Existed(i) ==
    \/ \E e \in RemoteOf(args.remote0) :
          ~e.folder /\ e.parent = log[i].folder_id /\ e.name = C9_Name(i)
    \/ \E j \in 1..(i - 1) :
          /\ log[j].op = "create" /\ ~log[j].folder /\ log[j].ok
          /\ log[j].parent = log[i].folder_id /\ log[j].name = C9_Name(i)

\* the events of call i: those up to the next call of upload_file
C9_Segment(i) ==
    {j \in LogIdx : j > i /\ \A k \in (i + 1)..j : log[k].op # "upload_file"}

C9_Ops(i, op) ==
    {j \in C9_Segment(i) : log[j].op = op /\ (op = "create" => ~log[j].folder)}

\* C9: upload_file never puts a second file of one name into a folder.
\* After a successful lookup: if a same-named file was in the target folder
\* and overwrite is off, it only reports the file as existing; if overwrite
\* is on, it issues one update, of that file's id, and the file stays in
\* its folder; it issues a create only if no same-named file was there.
\* Reporting an existing file does not end the upload.
C9_NoDuplicateUpload ==
    tool = "upload" =>
        /\ \A e \in remote : ~e.folder => Cardinality(C9_Files(e.parent, e.name)) = 1
        /\ \A i \in LogIdx :
              (log[i].op = "upload_file" /\ log[i + 1].ok) =>
                  /\ (C9_Existed(i) /\ ~args.overwrite) =>
                        /\ Cardinality(C9_Ops(i, "exists_error")) = 1
                        /\ C9_Ops(i, "create") = {} /\ C9_Ops(i, "update") = {}
                  /\ (C9_Existed(i) /\ args.overwrite) =>
                        /\ Cardinality(C9_Ops(i, "update")) = 1
                        /\ C9_Ops(i, "create") = {} /\ C9_Ops(i, "exists_error") = {}
                        /\ \A j \in C9_Ops(i, "update") :
                              \E e \in C9_Files(log[i].folder_id, C9_Name(i)) :
                                  e.id = log[j].id
                  /\ ~C9_Existed(i) =>
                        /\ Cardinality(C9_Ops(i, "create")) = 1
                        /\ C9_Ops(i, "update") = {} /\ C9_Ops(i, "exists_error") = {}
        /\ pc = "caught" => ~log[Len(log)].ok

\* a file was skipped as existing, another was uploaded after it, and the
\* upload ended normally
C9_Witness ==
    /\ tool = "upload" /\ pc = "done" /\ ~args.overwrite
    /\ \E i, j \in LogIdx :
          /\ i < j
          /\ log[i].op = "exists_error"
          /\ log[j].op = "create" /\ ~log[j].folder /\ log[j].ok

\* an existing file was overwritten by an update
C9_WitnessOverwrite ==
    /\ tool = "upload" /\ pc = "done" /\ args.overwrite
    /\ \E i \in LogIdx : log[i].op = "update" /\ log[i].ok

\* --------------------------------------------------------------- C10
C10_Descriptor(id) ==
    CHOOSE rf \in SeqToSet(remote_files) : rf.id = id

C10_PassesFilters(id) ==
    /\ ~(args.mime_types # {} /\ Tree[id].mimeType \notin args.mime_types)
    /\ ~(args.file_extensions # {}
         /\ get_file_extension(Tree[id].name) \notin args.file_extensions)

\* C10: the path the pre-check's walk gives an item is the path, relative
\* to local_folder_path, at which the download tests for an existing file
\* and at which it writes; and with overwrite and return_object off, an
\* item that passes the filters is skipped as existing exactly when the
\* pre-check left it out of the total as present.
C10_PathAgreement ==
    (PlanDone /\ Tree[RootId].mimeType = FolderMime) =>
        \A i \in LogIdx :
            /\ log[i].op = "should_process_file" =>
                  /\ \E rf \in SeqToSet(remote_files) : rf.id = log[i].id
                  /\ os_path_relpath(log[i].file_path, args.local_folder_path)
                        = C10_Descriptor(log[i].id).path
                  /\ (~args.overwrite /\ ~args.return_object /\ C10_PassesFilters(log[i].id))
                        => (~log[i].result
                              <=> C10_Descriptor(log[i].id).path
                                    \in LocalFilesKeys(args.fs0, args.local_folder_path))
            /\ log[i].op = "write" =>
                  os_path_relpath(log[i].path, args.local_folder_path)
                        = C10_Descriptor(log[i].id).path

\* a file below a subfolder was written, and another was skipped as present
C10_Witness ==
    /\ PlanDone /\ args.tree = "scenario" /\ args.recursive
    /\ \E i, j \in LogIdx :
          /\ log[i].op = "write" /\ log[i].id = "H"
          /\ log[j].op = "should_process_file" /\ log[j].id = "B" /\ ~log[j].result

\* --------------------------------------------------------------- C11
\* subfolders whose list call raised during the pre-check's walk
C11_Failed ==
    {log[i].id : i \in {j \in LogIdx : /\ log[j].op = "fetch_list"
                                       /\ ~log[j].ok
                                       /\ log[j].id # RootId}}

\* C11: when the list call of fetch_files_in_folder fails for a subfolder,
\* only that branch is lost: the program does not end with an uncaught
\* error, the pre-check finishes with a result, and every non-folder item
\* outside the failed subfolder is among the items the walk yielded.
C11_ListFailureAbortsBranch ==
    tool = "download" =>
        \A f \in C11_Failed :
            /\ pc # "uncaught"
            /\ \A id \in FileIds(Tree) :
                  (id # RootId /\ ~Under(Tree, id, f))
                      => \E k \in 1..Len(remote_files) : remote_files[k].id = id

\* --------------------------------------------------------------- C12
\* the transfers that succeeded, in the order they were made
C12_Transfers == SelectSeq(log, LAMBDA e : IsTransfer(e) /\ e.ok)

\* C12: with return_object set the local file system is left as it was (no
\* directory made, no file written) and the returned list holds one object
\* per successful transfer, in traversal order; without it the returned
\* list is empty and every successful transfer is followed by the write of
\* that item to a local file.
C12_ReturnObjectOrWrite ==
    tool = "download" =>
        IF args.return_object
        THEN /\ fs = args.fs0
             /\ \A i \in LogIdx : log[i].op \notin {"makedirs", "write"}
             /\ Len(file_objects) = Len(C12_Transfers)
             /\ \A k \in 1..Len(file_objects) :
                   file_objects[k].file_id = C12_Transfers[k].id
        ELSE /\ file_objects = <<>>
             /\ \A i \in LogIdx :
                   (IsTransfer(log[i]) /\ log[i].ok)
                       => /\ i < Len(log)
                          /\ log[i + 1].op = "write"
                          /\ log[i + 1].id = log[i].id
                          /\ log[i + 1].path \in fs.files

\* --------------------------------------------------------------- C13
\* C13: when folder_or_file_id is a single file, the pre-check's walk
\* yields nothing, calculate_total_download_size returns 0 whatever the
\* size of the file, and the run passes the gate and goes on to
\* process_drive_item whatever the free space is.
C13_SingleFileTotalZero ==
    (tool = "download" /\ PlanDone /\ Tree[RootId].mimeType # FolderMime) =>
        /\ remote_files = <<>>
        /\ total_size = 0
        /\ pc \in {"process", "done", "uncaught"}
        /\ pc # "process" => \E i \in LogIdx : log[i].op = "get" /\ log[i].id = RootId

\* a file of 3 units was downloaded and written with no free space at all
C13_Witness ==
    /\ tool = "download" /\ PlanDone /\ pc = "done"
    /\ Tree[RootId].mimeType # FolderMime
    /\ ItemGet(Tree[RootId], "size", 0) > args.free
    /\ \E i \in LogIdx : log[i].op = "write" /\ log[i].id = RootId

\* --------------------------------------------------------------- C14
\* the name main derives from the local directory, and the remote side
\* the run started from
C14_Name == os_path_basename(UploadRoot)

C14_Remote0 == RemoteOf(args.remote0)

C14_ExistedBefore == folder_exists(C14_Remote0, C14_Name, DriveFolderId)

\* main's attempt to create the folder failed: its list or create raised
C14_CreationFailed ==
    \E i \in LogIdx :
        \/ /\ log[i].op = "create" /\ log[i].folder /\ ~log[i].ok
           /\ log[i].name = C14_Name /\ log[i].parent = DriveFolderId
        \/ /\ log[i].op = "list_folders" /\ ~log[i].ok
           /\ log[i].name = C14_Name /\ log[i].parent = DriveFolderId

\* upload_to_folder was entered
C14_Started == UploadRoot \in DOMAIN folder_mapping

\* nothing was uploaded: no upload_file call, the remote side as it was
C14_NothingUploaded ==
    /\ \A i \in LogIdx : log[i].op # "upload_file"
    /\ remote = C14_Remote0
    /\ ~C14_Started

\* every upload_file call for a file directly in the local directory
\* names parent as its folder
C14_TopLevelInto(parent) ==
    \A i \in LogIdx :
        (log[i].op = "upload_file" /\ os_path_dirname(log[i].file_path) = UploadRoot)
            => log[i].folder_id = parent

\* the remote side holds the local tree below parent: every file under
\* the folder mapped to its directory, every subdirectory mapped to a
\* folder of its name under the folder of its parent directory
C14_Mirrored(parent) ==
    /\ folder_mapping[UploadRoot] = parent
    /\ \A d \in DOMAIN LTree :
          /\ d \in DOMAIN folder_mapping
          /\ d # UploadRoot =>
                \E e \in remote : /\ e.id = folder_mapping[d] /\ e.folder
                                  /\ e.name = os_path_basename(d)
                                  /\ e.parent = folder_mapping[os_path_dirname(d)]
          /\ \A k \in 1..Len(LTree[d].files) :
                \E e \in remote : /\ ~e.folder /\ e.name = LTree[d].files[k]
                                  /\ e.parent = folder_mapping[d]

\* C14: for a local directory, with --create_folder nothing is uploaded if
\* a folder of its name exists under drive_folder_id or its creation
\* fails, and otherwise a new folder of that name is created under
\* drive_folder_id and the contents are uploaded into it; without
\* --create_folder nothing is uploaded unless a folder of that name exists
\* under drive_folder_id, and then the top-level files are uploaded with
\* drive_folder_id itself as parent, not the same-named folder.
C14_UploadDirectory ==
    tool = "upload" =>
        IF args.create_folder
        THEN /\ (C14_ExistedBefore \/ C14_CreationFailed) => C14_NothingUploaded
             /\ C14_Started =>
                   \E e \in remote \ C14_Remote0 :
                       /\ e.folder /\ e.name = C14_Name /\ e.parent = DriveFolderId
                       /\ folder_mapping[UploadRoot] = e.id
                       /\ C14_TopLevelInto(e.id)
                       /\ (pc = "done" /\ nfail = 0) => C14_Mirrored(e.id)
        ELSE /\ ~C14_ExistedBefore => C14_NothingUploaded
             /\ C14_Started =>
                   /\ C14_ExistedBefore
                   /\ C14_TopLevelInto(DriveFolderId)
                   /\ \A e \in remote :
                         (e.folder /\ e.name = C14_Name /\ e.parent = DriveFolderId)
                             => e.id # folder_mapping[UploadRoot]
                   /\ (pc = "done" /\ nfail = 0) => C14_Mirrored(DriveFolderId)

\* without --create_folder, a file of the directory was created directly
\* under drive_folder_id although the same-named folder exists there
C14_Witness ==
    /\ tool = "upload" /\ ~args.create_folder /\ pc = "done" /\ nfail = 0
    /\ C14_ExistedBefore
    /\ \E i \in LogIdx :
          /\ log[i].op = "create" /\ ~log[i].folder /\ log[i].ok
          /\ log[i].parent = DriveFolderId

\* with --create_folder, the whole directory was uploaded into a new folder
C14_WitnessCreate ==
    /\ tool = "upload" /\ args.create_folder /\ pc = "done" /\ nfail = 0
    /\ args.ltree = "nested" /\ C14_Started
    /\ \E e \in remote \ C14_Remote0 :
          e.folder /\ e.name = C14_Name /\ e.parent = DriveFolderId

====
